---- MODULE Spec2Model ----
(***************************************************************************)
(* Model of the FaceSwap Telegram bot (src/bot.py): the conversation       *)
(* handler of main(), the handlers start_command, received_source_image,   *)
(* received_target_image_and_swap and cancel_command, the poller           *)
(* wait_for_completion and the result classification of the target         *)
(* handler.                                                                *)
(***************************************************************************)
EXTENDS Integers, Sequences, FiniteSets, TLC

(* ---------------------------------------------------------------- bounds *)
\* Updates that may wait in the application's update queue.
MaxQueue == 1
\* Keys present in a dict-shaped `output` of a status payload.
MaxDictKeys == 2

(* ------------------------------------------------------- program values *)
Users == {"alice", "bob"}
Urls == {"U1", "U2"}
JobIds == {"job-42"}
None == "None"

\* Conversation states (bot.py:34) and ConversationHandler.END.
WAITING_FOR_SOURCE_IMAGE == 0
WAITING_FOR_TARGET_IMAGE == 1
END == -1
ConvStates == {END, WAITING_FOR_SOURCE_IMAGE, WAITING_FOR_TARGET_IMAGE}

\* wait_for_completion: the deadline, the sleep between checks, the period
\* of the progress callback; check_faceswap_status: the request timeout.
max_wait_time == 180
SleepTime == 5
ProgressEvery == 5
StatusTimeout == 30
\* Time one status read takes: none, or the whole request timeout.
ReadTimes == {0, StatusTimeout}
\* Every read takes the whole request timeout.
SlowReadTimes == {StatusTimeout}

UpdateKinds == {"swap", "photo", "cancel"}
Updates == [user : Users, kind : UpdateKinds]

(* ------------------------------------------------------ status payloads *)
Absent == "<absent>"
NonString == "<non-string>"

COMPLETED == "COMPLETED"
FailedStatuses == {"FAILED", "CANCELLED", "ERROR"}
InFlightStatuses == {"IN_QUEUE", "IN_PROGRESS", "PROCESSING", "PENDING"}

\* The status strings the remote service is given to answer with: the known
\* ones in several letter cases, and unknown ones.
StatusStrings ==
    {"COMPLETED", "completed", "Completed", "FAILED", "failed", "CANCELLED",
     "cancelled", "ERROR", "Error", "IN_QUEUE", "in_queue", "IN_PROGRESS",
     "In_Progress", "PROCESSING", "Processing", "PENDING", "pending",
     "WEIRD_STATE", ""}

\* str.upper() on the strings above.
UpperIdentity(s) == s
Upper(s) ==
    CASE s \in {"completed", "Completed"} -> "COMPLETED"
      [] s = "failed" -> "FAILED"
      [] s = "cancelled" -> "CANCELLED"
      [] s = "Error" -> "ERROR"
      [] s = "in_queue" -> "IN_QUEUE"
      [] s = "In_Progress" -> "IN_PROGRESS"
      [] s = "Processing" -> "PROCESSING"
      [] s = "pending" -> "PENDING"
      [] OTHER -> s

\* The `status` field of a payload: a string, missing, or not a string.
StatusFields == StatusStrings \cup {Absent, NonString}

\* Keys searched in a dict-shaped output, in the order of the for loop.
ResultKeys == <<"image_url", "url", "result_url", "output_url">>
KnownKeys == {ResultKeys[i] : i \in 1..Len(ResultKeys)}
OutputKeys == KnownKeys \cup {"nonsense"}

\* Values under a key: a URL (one per key, so that the key that won can be
\* told), an empty value ("" or null), a non-empty value that is no URL.
UrlOf(k) == "https://cdn/" \o k \o ".png"
Empty == ""
Junk == "1"
HttpStrings == {UrlOf(k) : k \in KnownKeys} \cup {"https://cdn/result.png"}
\* str.startswith('http') on the strings of the model.
StartsWithHttp(s) == s \in HttpStrings
DictValues(k) == IF k \in KnownKeys THEN {Absent, Empty, Junk, UrlOf(k)}
                 ELSE {Absent, Junk}
Dicts ==
    {d \in [OutputKeys -> {Absent, Empty, Junk} \cup HttpStrings] :
        /\ \A k \in OutputKeys : d[k] \in DictValues(k)
        /\ Cardinality({k \in OutputKeys : d[k] # Absent}) <= MaxDictKeys}
NoDict == [k \in OutputKeys |-> Absent]

\* The `output` field: missing, a string, a dict, or another JSON value
\* (kind "other": a non-empty list or a non-zero number).
AbsentOutput == [kind |-> "absent", str |-> Empty, dict |-> NoDict]
StrOutput(s) == [kind |-> "str", str |-> s, dict |-> NoDict]
DictOutput(d) == [kind |-> "dict", str |-> Empty, dict |-> d]
OtherOutput == [kind |-> "other", str |-> Empty, dict |-> NoDict]
Outputs ==
    {AbsentOutput, OtherOutput}
    \cup {StrOutput(s) : s \in {Empty, "base64data", "https://cdn/result.png"}}
    \cup {DictOutput(d) : d \in Dicts}

\* What check_faceswap_status returns: None (transport error, non-200), a
\* JSON value that is falsy ({}, null, [], 0), or a non-empty dict.
NoneRead == [kind |-> "none", status |-> Absent, output |-> AbsentOutput]
FalsyRead == [kind |-> "falsy", status |-> Absent, output |-> AbsentOutput]
DictRead(s, o) == [kind |-> "dict", status |-> s, output |-> o]
\* The output of a payload is read only after a COMPLETED status.
OutputsFor(s) == IF s \in StatusStrings /\ Upper(s) = COMPLETED THEN Outputs
                 ELSE {AbsentOutput}
StatusReads ==
    {NoneRead, FalsyRead}
    \cup UNION {{DictRead(s, o) : o \in OutputsFor(s)} : s \in StatusFields}

\* A smaller set of answers with one of each kind: a failed read, a status of
\* each bucket, a status that is no string, and a COMPLETED payload with an
\* output of each shape the classification tells apart.
FewOutputs ==
    {AbsentOutput, OtherOutput, StrOutput("base64data"),
     StrOutput("https://cdn/result.png"),
     DictOutput([NoDict EXCEPT !["result_url"] = UrlOf("result_url")]),
     DictOutput([NoDict EXCEPT !["url"] = Junk]),
     DictOutput([NoDict EXCEPT !["nonsense"] = Junk])}
FewStatusReads ==
    {NoneRead, DictRead(NonString, AbsentOutput), DictRead("FAILED", AbsentOutput),
     DictRead("IN_PROGRESS", AbsentOutput), DictRead("WEIRD_STATE", AbsentOutput)}
    \cup {DictRead("COMPLETED", o) : o \in FewOutputs}

\* Python truthiness of a status read / of an output value.
TruthyAlways(r) == TRUE
Truthy(r) == r.kind = "dict"
OutputTruthy(o) ==
    CASE o.kind = "absent" -> FALSE
      [] o.kind = "str" -> o.str # Empty
      [] o.kind = "dict" -> \E k \in OutputKeys : o.dict[k] # Absent
      [] OTHER -> TRUE

(* ----------------------------------------------------------------- state *)
VARIABLES
    conv,            \* ConversationHandler: the state of each user's conversation
    user_data,       \* context.user_data['source_image_url'] of each user
    update_queue,    \* updates received and not yet processed
    pc,              \* where the update being processed is: idle, poll, resolved
    cur,             \* the user whose target handler is running
    job_id,          \* its local job_id
    submit_args,     \* the arguments of its submit_faceswap_job call
    check_count,     \* wait_for_completion: check_count
    clock,           \* time since start_time = loop.time() was taken
    elapsed_time,    \* wait_for_completion: elapsed_time of the last iteration
    status_calls,    \* calls of check_faceswap_status made for the job
    progress_calls,  \* calls of update_callback made for the job
    progress_msg,    \* what update_progress did in the last iteration
    status_result,   \* wait_for_completion: the last status_result
    result,          \* the value wait_for_completion returned
    poll_end,        \* why wait_for_completion ended (its log line)
    active_jobs,     \* jobs submitted for a user and not yet resolved
    submit_calls,    \* calls of submit_faceswap_job in a user's conversation
    last             \* what the last handler run did and showed the user

vars == <<conv, user_data, update_queue, pc, cur, job_id, submit_args,
          check_count, clock, elapsed_time, status_calls, progress_calls,
          progress_msg, status_result, result, poll_end, active_jobs, submit_calls, last>>

pollVars == <<check_count, clock, elapsed_time, status_calls, progress_calls,
              progress_msg, status_result, result, poll_end>>
handlerVars == <<pc, cur, job_id, submit_args, active_jobs>>

NoLast == [user |-> None, handler |-> "none", cause |-> "none",
           msg |-> "none", escaped |-> FALSE, url |-> None, submit |-> <<>>]

Init ==
    /\ conv = [u \in Users |-> END]
    /\ user_data = [u \in Users |-> None]
    /\ update_queue = <<>>
    /\ pc = "idle"
    /\ cur = None
    /\ job_id = None
    /\ submit_args = <<>>
    /\ check_count = 0
    /\ clock = 0
    /\ elapsed_time = 0
    /\ status_calls = 0
    /\ progress_calls = 0
    /\ progress_msg = "none"
    /\ status_result = NoneRead
    /\ result = NoneRead
    /\ poll_end = "none"
    /\ active_jobs = [u \in Users |-> 0]
    /\ submit_calls = [u \in Users |-> 0]
    /\ last = NoLast

(* ------------------------------------------------------------ dispatch *)
\* A user sends an update; run_polling puts it in the update queue.
Enqueue(u, k) ==
    /\ Len(update_queue) < MaxQueue
    /\ update_queue' = Append(update_queue, [user |-> u, kind |-> k])
    /\ UNCHANGED <<conv, user_data, last>>
    /\ UNCHANGED handlerVars
    /\ UNCHANGED pollVars
    /\ UNCHANGED submit_calls

\* The application is built without concurrent_updates: the next update is
\* taken only when the handler of the previous one has returned.
ApplicationFreeConcurrent == TRUE
ApplicationFree == pc = "idle"

\* ConversationHandler.check_update: entry points outside a conversation,
\* the handlers of the current state, then the fallbacks.
Route(state, k) ==
    CASE state = END /\ k = "swap" -> "start_command"
      [] state = WAITING_FOR_SOURCE_IMAGE /\ k = "photo" -> "received_source_image"
      [] state = WAITING_FOR_TARGET_IMAGE /\ k = "photo" -> "received_target_image_and_swap"
      [] state # END /\ k = "cancel" -> "cancel_command"
      [] OTHER -> "none"

Dispatch(u, handler) ==
    /\ ApplicationFree
    /\ update_queue # <<>>
    /\ Head(update_queue).user = u
    /\ Route(conv[u], Head(update_queue).kind) = handler
    /\ update_queue' = Tail(update_queue)

\* An update no handler of the conversation takes (a photo or /cancel
\* outside a conversation, /swap inside one) changes nothing.
DropUpdate(u) ==
    /\ Dispatch(u, "none")
    /\ UNCHANGED <<conv, user_data, last>>
    /\ UNCHANGED handlerVars
    /\ UNCHANGED pollVars
    /\ UNCHANGED submit_calls

\* error_handler: the message it sends once an exception left a handler.
ErrorHandler(eh_ok) == IF eh_ok THEN "error_handler" ELSE "none"

\* context.user_data.clear()
ClearNothing(ud, u) == ud
ClearEveryone(ud, u) == [v \in Users |-> None]
Clear(ud, u) == [ud EXCEPT ![u] = None]

\* The calls of submit_faceswap_job counted for user u once a handler run
\* has left the conversation states c: those made since the conversation
\* began, none when it has ended.
SubmitCallsAfter(c, u, called) ==
    [submit_calls EXCEPT
        ![u] = IF c[u] = END THEN 0 ELSE IF called THEN @ + 1 ELSE @]

(* ------------------------------------------------------- start_command *)
StartCommand(u) ==
    /\ Dispatch(u, "start_command")
    /\ \E api_working, warn_ok, welcome_ok, eh_ok \in BOOLEAN :
        LET raised == (~api_working /\ ~warn_ok) \/ ~welcome_ok IN
        /\ conv' = IF raised THEN conv
                   ELSE [conv EXCEPT ![u] = WAITING_FOR_SOURCE_IMAGE]
        /\ last' = [NoLast EXCEPT !.user = u, !.handler = "start",
                        !.cause = IF raised THEN "notify_error" ELSE "ok",
                        !.msg = IF raised THEN ErrorHandler(eh_ok) ELSE "welcome",
                        !.escaped = raised]
    /\ UNCHANGED user_data
    /\ UNCHANGED handlerVars
    /\ UNCHANGED pollVars
    /\ UNCHANGED submit_calls

(* ------------------------------------------------------ cancel_command *)
CancelCommand(u) ==
    /\ Dispatch(u, "cancel_command")
    /\ user_data' = Clear(user_data, u)
    /\ \E reply_ok, eh_ok \in BOOLEAN :
        /\ conv' = IF reply_ok THEN [conv EXCEPT ![u] = END] ELSE conv
        /\ last' = [NoLast EXCEPT !.user = u, !.handler = "cancel",
                        !.cause = IF reply_ok THEN "ok" ELSE "notify_error",
                        !.msg = IF reply_ok THEN "cancelled" ELSE ErrorHandler(eh_ok),
                        !.escaped = ~reply_ok]
    /\ submit_calls' = SubmitCallsAfter(conv', u, FALSE)
    /\ UNCHANGED handlerVars
    /\ UNCHANGED pollVars

(* ----------------------------------------------- received_source_image *)
\* The state the handler returns once the upload has answered and the
\* message edit that follows has been tried.
SourceNextState(image_url, edit_ok) ==
    IF image_url # None /\ edit_ok THEN WAITING_FOR_TARGET_IMAGE
    ELSE WAITING_FOR_SOURCE_IMAGE

ReceivedSourceImage(u) ==
    /\ Dispatch(u, "received_source_image")
    /\ \E fetch_ok, edit_ok, reply_ok, eh_ok \in BOOLEAN, image_url \in Urls \cup {None} :
        LET uploaded == fetch_ok /\ image_url # None
            \* an exception reached the except block
            caught == ~fetch_ok \/ ~edit_ok
            \* and the reply of the except block raised as well
            raised == caught /\ ~reply_ok
        IN
        /\ user_data' = IF uploaded THEN [user_data EXCEPT ![u] = image_url]
                        ELSE user_data
        /\ conv' = IF raised THEN conv
                   ELSE IF ~fetch_ok
                        THEN [conv EXCEPT ![u] = WAITING_FOR_SOURCE_IMAGE]
                        ELSE [conv EXCEPT ![u] = SourceNextState(image_url, edit_ok)]
        /\ last' = [NoLast EXCEPT !.user = u, !.handler = "source",
                        !.cause = IF ~fetch_ok THEN "fetch_error"
                                  ELSE IF image_url = None THEN "upload_failed"
                                  ELSE IF ~edit_ok THEN "notify_error"
                                  ELSE "ok",
                        !.msg = IF raised THEN ErrorHandler(eh_ok)
                                ELSE IF caught THEN "source_error"
                                ELSE IF image_url = None THEN "source_upload_failed"
                                ELSE "source_ok",
                        !.escaped = raised]
    /\ UNCHANGED handlerVars
    /\ UNCHANGED pollVars
    /\ UNCHANGED submit_calls

(* -------------------------------------- received_target_image_and_swap *)
\* The except block of the handler: edit the processing message if there is
\* one, fall back to a reply if the edit raises; the reply is not guarded.
UnexpectedError(has_msg, edit_ok, reply_ok) ==
    IF (has_msg /\ edit_ok) \/ reply_ok
    THEN [msg |-> "unexpected", escaped |-> FALSE]
    ELSE [msg |-> "none", escaped |-> TRUE]

\* The state returned when the upload of the target image fails.
TargetUploadFailedState == WAITING_FOR_TARGET_IMAGE

\* submit_faceswap_job(context.user_data['source_image_url'], target_image_url):
\* the swap image and the target image of the payload.
SubmitArgsSwapped(source_url, target_url) == <<target_url, source_url>>
SubmitArgs(source_url, target_url) == <<source_url, target_url>>

\* The first part of the handler, up to the call of wait_for_completion.
\* `next` is how it goes on: "poll" (the job is submitted and polled),
\* "end" (END is returned), "retry" (the state above is returned), "raise"
\* (an exception leaves the handler).
TargetFirstPart(source_url, fetch_ok, target_url, edit1_ok, job, edit2_ok, exc_edit_ok, exc_reply_ok) ==
    LET cause ==
            IF ~fetch_ok THEN "fetch_error"
            ELSE IF target_url = None THEN "upload_failed"
            ELSE IF ~edit1_ok THEN "notify_error"
            ELSE IF source_url = None THEN "key_error"
            ELSE IF job = None THEN "submit_failed"
            ELSE IF ~edit2_ok THEN "notify_error"
            ELSE "submitted"
        \* an exception reached the except block
        caught ==
            \/ ~fetch_ok
            \/ ~edit1_ok
            \/ (target_url # None /\ source_url = None)
            \/ (target_url # None /\ ~edit2_ok)
        exc == UnexpectedError(fetch_ok, exc_edit_ok, exc_reply_ok)
        \* the call of submit_faceswap_job, if the handler got that far
        submit ==
            IF fetch_ok /\ target_url # None /\ edit1_ok /\ source_url # None
            THEN SubmitArgs(source_url, target_url) ELSE <<>>
    IN  IF caught
        THEN [cause |-> cause, msg |-> exc.msg, submit |-> submit,
              next |-> IF exc.escaped THEN "raise" ELSE "end"]
        ELSE IF target_url = None
        THEN [cause |-> cause, msg |-> "upload_failed", submit |-> submit,
              next |-> "retry"]
        ELSE IF job = None
        THEN [cause |-> cause, msg |-> "submit_failed", submit |-> submit,
              next |-> "end"]
        ELSE [cause |-> cause, msg |-> "processing", submit |-> submit,
              next |-> "poll"]

\* The conversation states after a handler run of user u that ended with
\* `next`: a returned state is stored, an exception leaves them as they are.
ConvAfter(c, u, next) ==
    CASE next = "end" -> [c EXCEPT ![u] = END]
      [] next = "retry" -> [c EXCEPT ![u] = TargetUploadFailedState]
      [] OTHER -> c

ReceivedTargetImage(u) ==
    /\ Dispatch(u, "received_target_image_and_swap")
    /\ \E fetch_ok, edit1_ok, edit2_ok, exc_edit_ok, exc_reply_ok, eh_ok \in BOOLEAN,
          target_url \in Urls \cup {None}, job \in JobIds \cup {None} :
        LET r == TargetFirstPart(user_data[u], fetch_ok, target_url, edit1_ok,
                                 job, edit2_ok, exc_edit_ok, exc_reply_ok)
        IN
        IF r.next = "poll"
        THEN /\ pc' = "poll"
             /\ cur' = u
             /\ job_id' = job
             /\ submit_args' = r.submit
             /\ active_jobs' = [active_jobs EXCEPT ![u] = @ + 1]
             /\ submit_calls' = SubmitCallsAfter(conv, u, TRUE)
             /\ check_count' = 0
             /\ clock' = 0
             /\ elapsed_time' = 0
             /\ status_calls' = 0
             /\ progress_calls' = 0
             /\ progress_msg' = "none"
             /\ status_result' = NoneRead
             /\ result' = NoneRead
             /\ poll_end' = "none"
             /\ last' = [NoLast EXCEPT !.user = u, !.handler = "target",
                             !.cause = r.cause, !.msg = r.msg,
                             !.submit = r.submit]
             /\ UNCHANGED <<conv, user_data>>
        ELSE /\ user_data' = Clear(user_data, u)
             /\ conv' = ConvAfter(conv, u, r.next)
             /\ last' = [NoLast EXCEPT !.user = u, !.handler = "target",
                             !.cause = r.cause,
                             !.msg = IF r.next = "raise" THEN ErrorHandler(eh_ok)
                                     ELSE r.msg,
                             !.escaped = (r.next = "raise"),
                             !.submit = r.submit]
             /\ submit_calls' = SubmitCallsAfter(conv', u, r.submit # <<>>)
             /\ UNCHANGED handlerVars
             /\ UNCHANGED pollVars

(* ------------------------------------------------- wait_for_completion *)
\* if elapsed_time > max_wait_time
TimedOutAtDeadline(elapsed) == elapsed >= max_wait_time
TimedOutNever(elapsed) == FALSE
TimedOutLate(elapsed) == elapsed > max_wait_time + SleepTime
TimedOut(elapsed) == elapsed > max_wait_time

\* status_result.get('status', '').upper()
StatusOf(r) == IF r.status = Absent THEN Upper("") ELSE Upper(r.status)

\* The branch of the if/elif chain a status takes.
BucketUnknownFails(status) ==
    CASE status = COMPLETED -> "completed"
      [] status \in InFlightStatuses -> "in_flight"
      [] OTHER -> "failed"
BucketFailedCompletes(status) ==
    CASE status \in {COMPLETED} \cup FailedStatuses -> "completed"
      [] status \in InFlightStatuses -> "in_flight"
      [] OTHER -> "unknown"
Bucket(status) ==
    CASE status = COMPLETED -> "completed"
      [] status \in FailedStatuses -> "failed"
      [] status \in InFlightStatuses -> "in_flight"
      [] OTHER -> "unknown"

\* update_progress, the callback the handler passes to the poller: it edits
\* the processing message and catches what the edit raises.
UpdateProgressUnguarded(edit_ok) == IF edit_ok THEN "returned" ELSE "raised"
UpdateProgress(edit_ok) == "returned"

\* One iteration of the while loop; the status read answers one of `reads`
\* and takes one of `times`.
PollStep(reads, times) ==
    /\ pc = "poll"
    /\ check_count' = check_count + 1
    /\ elapsed_time' = clock
    /\ IF TimedOut(elapsed_time')
       THEN /\ pc' = "resolved"
            /\ poll_end' = "timeout"
            /\ result' = NoneRead
            /\ progress_msg' = "none"
            /\ UNCHANGED <<clock, status_calls, progress_calls, status_result>>
       ELSE \E r \in reads, d \in times :
            /\ status_calls' = status_calls + 1
            /\ status_result' = r
            /\ IF ~Truthy(r)
               THEN /\ pc' = "resolved"
                    /\ poll_end' = "failed_read"
                    /\ result' = NoneRead
                    /\ clock' = clock + d
                    /\ progress_msg' = "none"
                    /\ UNCHANGED progress_calls
               ELSE IF r.status = NonString
               THEN \* a status that is no string has no upper(): the call raises
                    /\ pc' = "resolved"
                    /\ poll_end' = "raised"
                    /\ result' = NoneRead
                    /\ clock' = clock + d
                    /\ progress_msg' = "none"
                    /\ UNCHANGED progress_calls
               ELSE LET called == check_count' % ProgressEvery = 0 IN
                    \E edit_ok \in IF called THEN BOOLEAN ELSE {TRUE} :
                    /\ progress_calls' =
                            IF called THEN progress_calls + 1 ELSE progress_calls
                    /\ progress_msg' =
                            IF ~called THEN "none"
                            ELSE IF edit_ok THEN "shown" ELSE "failed"
                    /\ IF called /\ UpdateProgress(edit_ok) = "raised"
                       THEN \* what the callback raises leaves wait_for_completion
                            /\ pc' = "resolved"
                            /\ poll_end' = "raised"
                            /\ result' = NoneRead
                            /\ clock' = clock + d
                       ELSE
                       CASE Bucket(StatusOf(r)) = "completed" ->
                              /\ pc' = "resolved"
                              /\ poll_end' = "completed"
                              /\ result' = r
                              /\ clock' = clock + d
                         [] Bucket(StatusOf(r)) = "failed" ->
                              /\ pc' = "resolved"
                              /\ poll_end' = "failed_status"
                              /\ result' = NoneRead
                              /\ clock' = clock + d
                         [] OTHER ->
                              /\ pc' = "poll"
                              /\ clock' = clock + d + SleepTime
                              /\ UNCHANGED <<poll_end, result>>
    /\ UNCHANGED <<conv, user_data, update_queue, cur, job_id, submit_args,
                   active_jobs, submit_calls, last>>

(* ------------------------------------------------ result classification *)
\* for key in [...]: if key in output: result_image_url = output[key]; break
FirstKeyValue(d) ==
    LET present == {i \in 1..Len(ResultKeys) : d[ResultKeys[i]] # Absent} IN
    IF present = {} THEN None
    ELSE d[ResultKeys[CHOOSE i \in present : \A j \in present : i <= j]]

\* result_image_url as the handler computes it from a truthy output.
ExtractUrlDictOnly(output) ==
    IF output.kind = "dict" THEN FirstKeyValue(output.dict) ELSE None
ExtractUrl(output) ==
    CASE output.kind = "str" ->
            IF StartsWithHttp(output.str) THEN output.str ELSE None
      [] output.kind = "dict" -> FirstKeyValue(output.dict)
      [] OTHER -> None

\* if result_image_url:
UrlTruthy(url) == url # None /\ url # Empty

\* if result and result.get('output'):
HasOutput(res) == Truthy(res) /\ OutputTruthy(res.output)

\* What requests.get(result_image_url) does: 200, another status, or an
\* exception; a value that is no URL always raises.
Downloads == {"200", "non200", "raise"}

\* Calls of the Telegram API the second part of the handler can make one
\* after the other: the message of the branch (delete and reply_photo on
\* delivery), the edit of the inner except block, the edit and the reply of
\* the outer except block, the reply of error_handler.
TgCalls == 5

\* The second part of the handler, from the return of wait_for_completion
\* on. Each call of the Telegram API is made only if the one before it
\* raised; `fails` is the number of calls that raise before one succeeds.
TargetSecondPart(end, res, download, fails) ==
    LET url == IF HasOutput(res) THEN ExtractUrl(res.output) ELSE None
        dl == IF StartsWithHttp(url) THEN download ELSE "raise"
        \* the branch, its message, and whether the inner except block
        \* stands between the branch and the outer one
        branch ==
            IF end = "raised"
            THEN [cause |-> "poll_raised", msgs |-> <<>>]
            ELSE IF ~HasOutput(res)
            THEN [cause |-> "failed_or_timed_out", msgs |-> <<"failed_or_timed_out">>]
            ELSE IF ~UrlTruthy(url)
            THEN [cause |-> "malformed", msgs |-> <<"malformed">>]
            ELSE IF dl = "200"
            THEN [cause |-> "delivered", msgs |-> <<"photo", "download_error">>]
            ELSE IF dl = "non200"
            THEN [cause |-> "download_failed",
                  msgs |-> <<"download_failed", "download_error">>]
            ELSE [cause |-> "download_error", msgs |-> <<"download_error">>]
        \* the messages tried in turn, the last two by the outer except block
        chain == branch.msgs \o <<"unexpected", "unexpected">>
    IN  [cause |-> branch.cause,
         url |-> url,
         escaped |-> fails >= Len(chain),
         msg |-> IF fails < Len(chain) THEN chain[fails + 1]
                 ELSE IF fails = Len(chain) THEN "error_handler"
                 ELSE "none"]

\* The handler goes on after wait_for_completion has returned (or raised),
\* runs its finally block and returns.
Classify ==
    /\ pc = "resolved"
    /\ \E download \in Downloads, fails \in 0..TgCalls :
        LET r == TargetSecondPart(poll_end, result, download, fails) IN
        /\ conv' = ConvAfter(conv, cur, IF r.escaped THEN "raise" ELSE "end")
        /\ last' = [NoLast EXCEPT !.user = cur, !.handler = "target",
                        !.cause = r.cause, !.msg = r.msg,
                        !.escaped = r.escaped, !.url = r.url]
    /\ user_data' = Clear(user_data, cur)
    /\ pc' = "idle"
    /\ cur' = None
    /\ job_id' = None
    /\ submit_args' = <<>>
    /\ active_jobs' = [active_jobs EXCEPT ![cur] = @ - 1]
    /\ submit_calls' = SubmitCallsAfter(conv', cur, FALSE)
    /\ check_count' = 0
    /\ clock' = 0
    /\ elapsed_time' = 0
    /\ status_calls' = 0
    /\ progress_calls' = 0
    /\ progress_msg' = "none"
    /\ status_result' = NoneRead
    /\ result' = NoneRead
    /\ poll_end' = "none"
    /\ UNCHANGED update_queue

(* ----------------------------------------------------------------- spec *)
\* The bot serving its users; every status read takes the request timeout.
Next ==
    \/ \E u \in Users, k \in UpdateKinds : Enqueue(u, k)
    \/ \E u \in Users : DropUpdate(u)
    \/ \E u \in Users : StartCommand(u)
    \/ \E u \in Users : CancelCommand(u)
    \/ \E u \in Users : ReceivedSourceImage(u)
    \/ \E u \in Users : ReceivedTargetImage(u)
    \/ PollStep(FewStatusReads, SlowReadTimes)
    \/ Classify

Spec == Init /\ [][Next]_vars

\* One job from its submission to the return of the handler, with every
\* answer and every duration of a status read.
InitPolling ==
    /\ conv = [u \in Users |-> IF u = "alice" THEN WAITING_FOR_TARGET_IMAGE ELSE END]
    /\ user_data = [u \in Users |-> IF u = "alice" THEN "U1" ELSE None]
    /\ update_queue = <<>>
    /\ pc = "poll"
    /\ cur = "alice"
    /\ job_id = "job-42"
    /\ submit_args = <<"U1", "U2">>
    /\ check_count = 0
    /\ clock = 0
    /\ elapsed_time = 0
    /\ status_calls = 0
    /\ progress_calls = 0
    /\ progress_msg = "none"
    /\ status_result = NoneRead
    /\ result = NoneRead
    /\ poll_end = "none"
    /\ active_jobs = [u \in Users |-> IF u = "alice" THEN 1 ELSE 0]
    /\ submit_calls = [u \in Users |-> IF u = "alice" THEN 1 ELSE 0]
    /\ last = [NoLast EXCEPT !.user = "alice", !.handler = "target",
                   !.cause = "submitted", !.msg = "processing"]

NextPolling ==
    \/ PollStep(StatusReads, ReadTimes)
    \/ Classify

PollerSpec == InitPolling /\ [][NextPolling]_vars

\* One job with an answer of each kind and every duration of a status read,
\* and the event loop running the handler on: wait_for_completion is resumed
\* after each await, and the handler goes on once it has returned.
NextPollingLive ==
    \/ PollStep(FewStatusReads, ReadTimes)
    \/ Classify

PollerLiveSpec ==
    InitPolling /\ [][NextPollingLive]_vars /\ WF_vars(NextPollingLive)

(* ------------------------------------------------------------- claims *)
\* The stage of the specification a session is in: Running while its target
\* handler polls or classifies, Idle outside a conversation.
Running(u) == cur = u /\ pc \in {"poll", "resolved"}
Idle(u) == conv[u] = END

\* The step takes the update of kind k of user u from the queue.
Dispatched(u, k) ==
    /\ update_queue # <<>>
    /\ Head(update_queue) = [user |-> u, kind |-> k]
    /\ update_queue' = Tail(update_queue)

Pending(u, k) ==
    \E i \in 1..Len(update_queue) : update_queue[i] = [user |-> u, kind |-> k]

\* C1: whenever a session is Idle, no source image URL and no active job
\* remain stored for it.
C1_IdleScratchEmpty ==
    \A u \in Users :
        Idle(u) => /\ user_data[u] = None
                   /\ active_jobs[u] = 0
                   /\ ~(cur = u /\ job_id # None)

\* A session is back in Idle after its target handler polled a job and went
\* through its except block.
C1_Witness ==
    /\ last.handler = "target" /\ last.cause = "poll_raised" /\ ~last.escaped
    /\ Idle(last.user) /\ pc = "idle"

\* C2: in AwaitingTarget, a photo whose upload fails or whose job submission
\* fails, handled by a handler run that returns, leaves the session Idle.
C2_FailureEndsAttempt ==
    [][\A u \in Users :
        ( /\ conv[u] = WAITING_FOR_TARGET_IMAGE
          /\ Dispatched(u, "photo")
          /\ last'.cause \in {"upload_failed", "submit_failed"}
          /\ ~last'.escaped )
        => conv'[u] = END]_vars

\* C3: once a cancel of a Running session is issued, no further status call
\* is made for its job.
C3_CancelStopsStatusCalls ==
    [][\A u \in Users :
        (Running(u) /\ Pending(u, "cancel")) => status_calls' = status_calls]_vars

\* C4: a photo received in AwaitingSource leaves the session in
\* AwaitingSource with no source URL stored unless its upload succeeded, and
\* then the URL is stored and the session is in AwaitingTarget.
C4_SourceUploadDecides ==
    [][\A u \in Users :
        (conv[u] = WAITING_FOR_SOURCE_IMAGE /\ Dispatched(u, "photo"))
        => IF last'.cause \in {"ok", "notify_error"}
           THEN conv'[u] = WAITING_FOR_TARGET_IMAGE /\ user_data'[u] \in Urls
           ELSE conv'[u] = WAITING_FOR_SOURCE_IMAGE /\ user_data'[u] = None]_vars

\* C5: while a session is Running none of its photo or start updates is
\* handled, and it never has more than one active job.
C5_OneJobPerSession ==
    [][\A u \in Users :
        Running(u) => /\ ~Dispatched(u, "photo")
                      /\ ~Dispatched(u, "swap")
                      /\ active_jobs'[u] <= 1]_vars

\* A photo of a Running session waits in the queue.
C5_Witness ==
    \E u \in Users : Running(u) /\ pc = "poll" /\ Pending(u, "photo")

\* The sleeps the poller has finished, and the runs in which no status read
\* took any time and every read so far was in flight.
SleepCount == IF pc = "poll" THEN check_count ELSE check_count - 1
InstantInFlight ==
    /\ pc = "poll" \/ (pc = "resolved" /\ poll_end = "timeout")
    /\ clock = SleepTime * SleepCount

\* C6 as claimed: with in-flight reads that take no time, at most 36 status
\* calls are made.
C6_AtMost36Calls == InstantInFlight => status_calls <= 36

\* C6 as amended: with in-flight reads that take no time the poller times
\* out after exactly 37 status calls (at 0, 5, ..., 180) and makes no 38th.
C6_AtMost37Calls ==
    InstantInFlight =>
        /\ status_calls <= 37
        /\ (pc = "resolved" => status_calls = 37)
        /\ (pc = "poll" /\ status_calls = 37 => clock > max_wait_time)

C6_Witness ==
    InstantInFlight /\ poll_end = "timeout" /\ status_calls = 37

\* The statuses the poller knows.
RecognizedStatuses == {COMPLETED} \cup FailedStatuses \cup InFlightStatuses
Unrecognized(r) ==
    Truthy(r) /\ r.status # NonString /\ StatusOf(r) \notin RecognizedStatuses

\* C7: a status read with an unrecognized or missing status string does not
\* end the poll, which sleeps and goes on; a read that then says COMPLETED
\* ends it with that payload as the result.
C7_UnknownStatusKeepsPolling ==
    [][(pc = "poll" /\ status_calls' = status_calls + 1) =>
        /\ Unrecognized(status_result') =>
              /\ pc' = "poll" /\ poll_end' = "none"
              /\ clock' >= clock + SleepTime
        /\ (Unrecognized(status_result) /\ Truthy(status_result')
                /\ status_result'.status # NonString
                /\ StatusOf(status_result') = COMPLETED) =>
              /\ pc' = "resolved" /\ poll_end' = "completed"
              /\ result' = status_result']_vars

\* The poll goes on after a read without a status field.
C7_Witness ==
    pc = "poll" /\ status_calls >= 1 /\ status_result.status = Absent
    /\ Truthy(status_result)

\* The URL the claims expect from an output: the string itself if it is a
\* URL, the URL under the first known key that holds one.
ClaimedUrl(o) ==
    CASE o.kind = "str" -> IF StartsWithHttp(o.str) THEN o.str ELSE None
      [] o.kind = "dict" ->
            LET urls == {i \in 1..Len(ResultKeys) : StartsWithHttp(o.dict[ResultKeys[i]])}
            IN IF urls = {} THEN None
               ELSE o.dict[ResultKeys[CHOOSE i \in urls : \A j \in urls : i <= j]]
      [] OTHER -> None

\* The step is the second part of the handler after a COMPLETED read.
ClassifiesCompleted == pc = "resolved" /\ poll_end = "completed" /\ pc' = "idle"

\* C8: from a non-empty string or dict output the handler takes the URL the
\* first key holding one gives, and reports a malformed result if none does.
C8_FirstUrlWins ==
    [][(ClassifiesCompleted /\ OutputTruthy(result.output)
            /\ result.output.kind \in {"str", "dict"}) =>
        /\ last'.url = ClaimedUrl(result.output)
        /\ ClaimedUrl(result.output) = None => last'.cause = "malformed"]_vars

\* The outputs C9 lists as unusable.
Unusable(o) ==
    \/ o.kind \in {"absent", "other"}
    \/ o.kind = "str" /\ ~StartsWithHttp(o.str)
    \/ o.kind = "dict" /\ \A k \in KnownKeys : o.dict[k] = Absent

\* C9: a COMPLETED payload with an unusable output is classified as a
\* malformed result.
C9_UnusableIsMalformed ==
    [][(ClassifiesCompleted /\ Unusable(result.output)) =>
        last'.cause = "malformed"]_vars

\* C10: the target handler of a Running session ends with the session Idle.
C10_RunningEndsIdle ==
    [][\A u \in Users : (Running(u) /\ pc' = "idle") => Idle(u)']_vars

\* The step ends a run of the target handler for u: in its first part, or
\* after the poll.
TargetHandlerEnds(u) ==
    \/ conv[u] = WAITING_FOR_TARGET_IMAGE /\ Dispatched(u, "photo") /\ pc' = "idle"
    \/ Running(u) /\ pc' = "idle"

\* The messages that tell the user of a failure.
FailureMessages ==
    {"upload_failed", "submit_failed", "failed_or_timed_out", "malformed",
     "download_failed", "download_error", "unexpected", "error_handler"}

\* C11: a run of the target handler that does not deliver the result shows
\* the user a failure message and leaves the session Idle with its scratch
\* cleared, and no exception leaves the handler.
C11_FailuresReportedAndReset ==
    [][\A u \in Users :
        (TargetHandlerEnds(u) /\ last'.msg # "photo") =>
            /\ ~last'.escaped
            /\ last'.msg \in FailureMessages
            /\ Idle(u)'
            /\ user_data'[u] = None]_vars

\* The exchange of the example: source upload U1, target upload U2, job-42
\* submitted with them, three status reads that kept the poll going and a
\* fourth one COMPLETED with the URL as its output.
ExampleUrl == "https://cdn/result.png"
ExampleResolved ==
    /\ pc = "resolved" /\ poll_end = "completed"
    /\ job_id = "job-42" /\ submit_args = <<"U1", "U2">>
    /\ check_count = 4
    /\ result = DictRead("COMPLETED", StrOutput(ExampleUrl))

HandlesEventOf(u) ==
    \/ \E k \in UpdateKinds : Dispatched(u, k)
    \/ Running(u)

\* C13: a step of the handling of an event of one user leaves the
\* conversation state, the stored source URL and the job of every other user
\* as they were.
C13_SessionsIsolated ==
    [][\A a, b \in Users :
        (a # b /\ HandlesEventOf(a)) =>
            /\ conv'[b] = conv[b]
            /\ user_data'[b] = user_data[b]
            /\ active_jobs'[b] = active_jobs[b]
            /\ cur # b /\ cur' # b]_vars

\* The target handler of one user has failed and cleaned up while another
\* user was waiting with a source URL stored.
C13_Witness ==
    \E a, b \in Users :
        /\ a # b
        /\ last.user = a /\ last.handler = "target"
        /\ last.cause = "failed_or_timed_out"
        /\ user_data[a] = None
        /\ conv[b] = WAITING_FOR_TARGET_IMAGE /\ user_data[b] \in Urls

\* The update of user u at the head of the queue can be handled now.
CanHandleUpdateOf(u) ==
    ENABLED (Next /\ \E k \in UpdateKinds : Dispatched(u, k))

\* C14: while the target handler of one user is polling, an update of
\* another user that is next in the queue can be handled at once, without
\* waiting for the poller to return.
C14_OtherSessionAdvances ==
    \A a, b \in Users :
        ( /\ a # b
          /\ Running(a) /\ pc = "poll"
          /\ update_queue # <<>> /\ Head(update_queue).user = b )
        => CanHandleUpdateOf(b)

\* The statuses that end the poll, and the reads after which it goes on.
TerminalStatuses == {COMPLETED} \cup FailedStatuses
ReadInFlight(r) ==
    Truthy(r) /\ r.status # NonString /\ StatusOf(r) \notin TerminalStatuses

\* C15: the check that makes a status read calls the progress callback
\* exactly when its number is a multiple of 5 and the read is in flight; a
\* check whose read gave a terminal status never calls it.
C15_ProgressOnlyInFlight ==
    [][(pc = "poll" /\ status_calls' = status_calls + 1) =>
        (progress_calls' = progress_calls + 1
            <=> (check_count' % ProgressEvery = 0 /\ ReadInFlight(status_result')))]_vars

FailedRead(r) == r.kind \in {"none", "falsy"}

\* C17: a status read that fails ends the poll at once with the failed
\* outcome, and no status call is made once the poller has returned.
C17_FailedReadEndsPoll ==
    [][/\ (pc = "poll" /\ status_calls' = status_calls + 1
              /\ FailedRead(status_result')) =>
            /\ pc' = "resolved" /\ poll_end' = "failed_read"
            /\ result' = NoneRead
       /\ (pc = "resolved" /\ poll_end = "failed_read") =>
            status_calls' <= status_calls]_vars

\* The third status read failed and the poller has returned.
C17_Witness ==
    /\ pc = "resolved" /\ poll_end = "failed_read"
    /\ status_result = NoneRead /\ status_calls = 3

\* The number of status calls the specification gives for a job that
\* resolves at run-time T: the ceiling of min(T, maxWait) / pollInterval.
CeilDiv(a, b) == (a + b - 1) \div b
Min(a, b) == IF a <= b THEN a ELSE b
ClaimedCalls(T) == CeilDiv(Min(T, max_wait_time), SleepTime)
WithinOne(m, n) == m - n <= 1 /\ n - m <= 1

\* The step makes the read that first sees the job's terminal status, and
\* the run-times of the job this agrees with: later than the start of the
\* read before it, which saw the job in flight, and not later than the end of
\* this read.
TerminalRead ==
    /\ pc = "poll" /\ status_calls' = status_calls + 1
    /\ Truthy(status_result') /\ status_result'.status # NonString
    /\ StatusOf(status_result') \in TerminalStatuses
JobRunTimes == (IF status_calls = 0 THEN 0 ELSE elapsed_time + 1) .. clock'
\* The step finds the deadline passed: the job never resolved.
GaveUp == pc = "poll" /\ poll_end' = "timeout"
\* No status read of the run took any time.
InstantReads == clock' = SleepTime * (check_count' - 1)

\* C18 as claimed: the number of status calls made before the poller returns
\* is within 1 of ceil(min(T, 180) / 5) for a job that resolves at T, and
\* within 1 of 36 for one that never does.
C18_CallsWithinOne ==
    [][/\ TerminalRead =>
            \A T \in JobRunTimes : WithinOne(status_calls', ClaimedCalls(T))
       /\ GaveUp => WithinOne(status_calls', ClaimedCalls(max_wait_time))]_vars

\* C18 as amended: the number of status calls is at most
\* ceil(min(T, 180) / 5) + 1, and is exactly that when no status read takes
\* any time; reads that take time make it smaller.
C18_CallsAtMostOneMore ==
    [][/\ TerminalRead =>
            \A T \in JobRunTimes :
                /\ status_calls' <= ClaimedCalls(T) + 1
                /\ InstantReads => status_calls' = ClaimedCalls(T) + 1
       /\ GaveUp =>
            /\ status_calls' <= ClaimedCalls(max_wait_time) + 1
            /\ InstantReads => status_calls' = ClaimedCalls(max_wait_time) + 1]_vars

\* Two status reads that took the whole request timeout, the second one
\* COMPLETED: two calls for a job that took up to 65 time units.
C18_Witness ==
    /\ pc = "resolved" /\ poll_end = "completed"
    /\ status_calls = 2 /\ elapsed_time = SleepTime + StatusTimeout
    /\ clock = elapsed_time + StatusTimeout

\* C19: whatever the status reads answer the poller returns in the end, and
\* it makes a status call only in an iteration whose elapsed time, taken
\* before the call, does not exceed max_wait_time.
C19_ReturnsWithinDeadline ==
    /\ <>(pc = "resolved")
    /\ [][status_calls' = status_calls + 1 =>
            /\ elapsed_time' = clock
            /\ elapsed_time' <= max_wait_time]_vars

\* Six status reads that each took the request timeout were all in flight;
\* the seventh iteration found the deadline passed and made no call.
C19_Witness ==
    /\ pc = "resolved" /\ poll_end = "timeout"
    /\ check_count = 7 /\ status_calls = 6
    /\ elapsed_time > max_wait_time

\* The status strings of each bucket in the letter cases the service is
\* given to answer with.
CompletedSpellings == {"COMPLETED", "completed", "Completed"}
FailedSpellings ==
    {"FAILED", "failed", "CANCELLED", "cancelled", "ERROR", "Error"}
InFlightSpellings ==
    {"IN_QUEUE", "in_queue", "IN_PROGRESS", "In_Progress", "PROCESSING",
     "Processing", "PENDING", "pending"}

\* C20: whatever the letter case of the status, a completed read ends the
\* poll with the whole payload as its result, a failed, cancelled or error
\* read ends it with the failed result, and an in_queue, in_progress,
\* processing or pending read lets it go on after one sleep; once the poll
\* has ended no status call is made.
C20_BucketsIgnoreCase ==
    [][/\ (pc = "poll" /\ status_calls' = status_calls + 1
              /\ Truthy(status_result')) =>
            /\ status_result'.status \in CompletedSpellings =>
                  /\ pc' = "resolved" /\ poll_end' = "completed"
                  /\ result' = status_result'
            /\ status_result'.status \in FailedSpellings =>
                  /\ pc' = "resolved" /\ poll_end' = "failed_status"
                  /\ result' = NoneRead
            /\ status_result'.status \in InFlightSpellings =>
                  /\ pc' = "poll" /\ poll_end' = "none"
                  /\ \E d \in ReadTimes : clock' = clock + d + SleepTime
       /\ pc = "resolved" => status_calls' <= status_calls]_vars

\* A read that said Completed has ended the poll with its payload.
C20_Witness ==
    /\ pc = "resolved" /\ poll_end = "completed"
    /\ status_result.status = "Completed" /\ result = status_result
    /\ status_calls >= 2

\* The step is a run of the target handler of u that calls
\* submit_faceswap_job.
SubmitCalled(u) ==
    /\ conv[u] = WAITING_FOR_TARGET_IMAGE /\ Dispatched(u, "photo")
    /\ last'.user = u /\ last'.submit # <<>>

\* C21: submit is called at most once in a conversation, and only with a
\* source URL stored by a successful source upload as the swap image and the
\* URL of the target upload of the same handler run as the target image.
C21_SubmitAtMostOnce ==
    [][\A u \in Users :
        /\ submit_calls'[u] <= 1
        /\ SubmitCalled(u) =>
              /\ submit_calls[u] = 0
              /\ user_data[u] \in Urls
              /\ Len(last'.submit) = 2
              /\ last'.submit[1] = user_data[u]
              /\ last'.submit[2] \in Urls
              /\ (pc' = "poll" => submit_args' = last'.submit)]_vars

\* A conversation that has submitted a job and has not ended (an exception
\* left the handler) got another target photo, which did not reach submit.
C21_Witness ==
    \E u \in Users :
        /\ pc = "idle" /\ conv[u] = WAITING_FOR_TARGET_IMAGE
        /\ submit_calls[u] = 1
        /\ last.user = u /\ last.handler = "target" /\ last.cause = "key_error"

\* The session waits for its target image: the conversation is in
\* WAITING_FOR_TARGET_IMAGE and no target handler is running for it.
AwaitingTarget(u) == conv[u] = WAITING_FOR_TARGET_IMAGE /\ ~Running(u)

\* C22: whenever a session waits for its target image, a source image URL is
\* stored for it.
C22_AwaitingTargetHasSource ==
    \A u \in Users : AwaitingTarget(u) => user_data[u] \in Urls

\* C23: the handler sends a result photo only after the poller has returned
\* the payload of a COMPLETED read made before the deadline had passed, with
\* a URL taken from its output and a download of that URL answered with 200;
\* after a timeout, a failed read or a terminal failure status it sends none.
C23_DeliveredOnlyIfCompleted ==
    [][(pc = "resolved" /\ pc' = "idle") =>
        /\ last'.msg = "photo" =>
              /\ poll_end = "completed"
              /\ result = status_result /\ Truthy(result)
              /\ result.status \in CompletedSpellings
              /\ elapsed_time <= max_wait_time
              /\ last'.url \in HttpStrings
              /\ last'.url = ClaimedUrl(result.output)
              /\ last'.cause = "delivered"
        /\ poll_end \in {"timeout", "failed_read", "failed_status", "raised"} =>
              /\ last'.msg # "photo"
              /\ last'.url = None
              /\ last'.cause # "delivered"]_vars

\* The photo of a URL found under a key of a dict output has been sent.
C23_Witness ==
    /\ pc = "idle" /\ last.handler = "target"
    /\ last.cause = "delivered" /\ last.msg = "photo"
    /\ last.url = UrlOf("result_url")

\* C24: an iteration whose progress notification fails ends as the status it
\* read decides, the same as with a notification that succeeds: a completed
\* read returns the payload, a failure status returns the failed result,
\* any other status sleeps and goes on to the next status call; the failure
\* never leaves the poller as an exception.
C24_ProgressFailureIgnored ==
    [][(pc = "poll" /\ status_calls' = status_calls + 1
            /\ progress_msg' = "failed") =>
        /\ progress_calls' = progress_calls + 1
        /\ poll_end' # "raised"
        /\ status_result'.status \in CompletedSpellings =>
              /\ pc' = "resolved" /\ poll_end' = "completed"
              /\ result' = status_result'
        /\ status_result'.status \in FailedSpellings =>
              /\ pc' = "resolved" /\ poll_end' = "failed_status"
              /\ result' = NoneRead
        /\ ReadInFlight(status_result') =>
              /\ pc' = "poll" /\ poll_end' = "none"
              /\ \E d \in ReadTimes : clock' = clock + d + SleepTime]_vars

\* The notification of the tenth check failed and the poll goes on.
C24_Witness ==
    /\ pc = "poll" /\ check_count = 10 /\ status_calls = 10
    /\ progress_calls = 2 /\ progress_msg = "failed"
    /\ ReadInFlight(status_result)

====
